---- MODULE Spec2Model ----
(***************************************************************************)
(* The NgRx user/authentication store of ngrx-shared-state-example.ts:     *)
(* the user slice and its reducer, the five effects of UserEffects, the    *)
(* AuthService (token in localStorage), the route guards, and observers of *)
(* the selectors.                                                          *)
(*                                                                         *)
(* One dispatch is processed in three steps, in the order the store runs   *)
(* them: Dispatch puts the action on the action stream, Reduce applies     *)
(* userReducer and notifies the observers, RunEffects lets the effects see *)
(* the reduced action.  JavaScript runs each event to completion, so an    *)
(* external event (a component's dispatch, an HTTP response, a navigation) *)
(* is taken only when no action is waiting to be reduced or to be seen by  *)
(* the effects (Idle).                                                     *)
(***************************************************************************)
EXTENDS Naturals, Sequences, FiniteSets

VARIABLES
    state,      \* the user slice held by the store (an object: ref + four fields)
    nextRef,    \* the next fresh object identity
    token,      \* localStorage['auth_token'], NoToken when absent
    route,      \* the route the router is on
    queue,      \* actions dispatched and not yet reduced
    scanned,    \* the action just reduced, which the effects have yet to see (0 or 1)
    calls,      \* effect invocations in the order they started
    log,        \* history: the actions reduced so far, in order
    obs,        \* per observed selector: the last value delivered and the deliveries
    memo        \* per selector: the input its projector last ran on, and its runs

vars == <<state, nextRef, token, route, queue, scanned, calls, log, obs, memo>>

----------------------------------------------------------------------------
(* Bounds *)

\* external dispatches (by components) in one run
MaxExt == 3

\* the same, in the runs checked for liveness
MaxLive == 2

\* actions applied in one run of the reducer on its own
MaxApply == 2

----------------------------------------------------------------------------
(* Data *)

NoToken == "null"
NoError == "null"
NoUser == [id |-> "null", role |-> "undefined", obj |-> 0]

\* what the backend may answer to POST api/auth/login: { token, user }
Responses ==
    { [token |-> "tokA", user |-> [id |-> "1", role |-> "admin"]],
      [token |-> "tokB", user |-> [id |-> "2", role |-> "user"]] }

\* what the backend may answer to GET api/auth/me
Profiles == { r.user : r \in Responses }

\* the login form's values
Credentials == { "a:b" }

\* a response body deserialised into a fresh object (obj is its identity)
UserObject(u, o) == [id |-> u.id, role |-> u.role, obj |-> o]

initialUserState ==
    [ref |-> 0, currentUser |-> NoUser, isAuthenticated |-> FALSE,
     loading |-> FALSE, error |-> NoError]

\* the four fields of a slice object, without its identity
Fields(s) ==
    [currentUser |-> s.currentUser, isAuthenticated |-> s.isAuthenticated,
     loading |-> s.loading, error |-> s.error]

----------------------------------------------------------------------------
(* Actions (user.actions.ts).  inv is history only: the invocation whose    *)
(* follow-up the action is, 0 for an action a component dispatched.         *)

Action(t, c, u, e, i) == [type |-> t, cred |-> c, user |-> u, error |-> e, inv |-> i]

login(c) == Action("[Auth] Login", c, NoUser, NoError, 0)
loginSuccess(u, i) == Action("[Auth] Login Success", "", u, NoError, i)
loginFailure(e, i) == Action("[Auth] Login Failure", "", NoUser, e, i)
logout == Action("[Auth] Logout", "", NoUser, NoError, 0)
logoutSuccess(i) == Action("[Auth] Logout Success", "", NoUser, NoError, i)
getUserProfile == Action("[User] Get User Profile", "", NoUser, NoError, 0)
getUserProfileSuccess(u, i) == Action("[User] Get User Profile Success", "", u, NoError, i)
\* an action of a type no reducer case and no effect knows
otherAction == Action("[Other] Unknown", "", NoUser, NoError, 0)

HandledTypes ==
    { "[Auth] Login", "[Auth] Login Success", "[Auth] Login Failure",
      "[Auth] Logout", "[Auth] Logout Success",
      "[User] Get User Profile", "[User] Get User Profile Success" }

TriggerTypes == { "[Auth] Login", "[Auth] Logout", "[User] Get User Profile" }

\* what the components dispatch
ExternalActions == { login(c) : c \in Credentials } \cup { logout, getUserProfile, otherAction }

----------------------------------------------------------------------------
(* Reducer (user.reducer.ts).  Every `on` case returns an object literal,   *)
(* i.e. a new object; an action with no `on` case returns the state given.  *)

\* the `on` handlers, by action type
on(s, a) ==
    CASE a.type = "[Auth] Login" ->
            [s EXCEPT !.ref = nextRef, !.loading = TRUE, !.error = NoError]
      [] a.type = "[Auth] Login Success" ->
            [s EXCEPT !.ref = nextRef, !.currentUser = a.user,
                      !.isAuthenticated = TRUE, !.loading = FALSE, !.error = NoError]
      [] a.type = "[Auth] Login Failure" ->
            [s EXCEPT !.ref = nextRef, !.loading = FALSE, !.error = a.error]
      [] a.type = "[Auth] Logout" ->
            [s EXCEPT !.ref = nextRef, !.loading = TRUE]
      [] a.type = "[Auth] Logout Success" ->
            [initialUserState EXCEPT !.ref = nextRef]
      [] a.type = "[User] Get User Profile" ->
            [s EXCEPT !.ref = nextRef, !.loading = TRUE]
      [] a.type = "[User] Get User Profile Success" ->
            [s EXCEPT !.ref = nextRef, !.currentUser = a.user, !.loading = FALSE]

\* mutant: the reducer has no case for login
userReducerNoLoginCase(s, a) ==
    IF a.type \in HandledTypes \ {"[Auth] Login"} THEN on(s, a) ELSE s

\* mutant: loginSuccess forgets to set isAuthenticated
userReducerNoAuthFlag(s, a) ==
    IF a.type = "[Auth] Login Success"
    THEN [on(s, a) EXCEPT !.isAuthenticated = s.isAuthenticated]
    ELSE IF a.type \in HandledTypes THEN on(s, a) ELSE s

\* mutant: the default case returns a copy of the state
userReducerCopyDefault(s, a) ==
    IF a.type \in HandledTypes THEN on(s, a) ELSE [s EXCEPT !.ref = nextRef]

\* mutant: logout returns the state given when loading is already set
userReducerLogoutShortcut(s, a) ==
    IF a.type = "[Auth] Logout" /\ s.loading THEN s
    ELSE IF a.type \in HandledTypes THEN on(s, a) ELSE s

\* mutant: loginFailure derives isAuthenticated from the stored token
userReducerReadsToken(s, a) ==
    IF a.type = "[Auth] Login Failure"
    THEN [on(s, a) EXCEPT !.isAuthenticated = (token # NoToken)]
    ELSE IF a.type \in HandledTypes THEN on(s, a) ELSE s

\* mutant: logoutSuccess spreads the current slice and clears the user only
userReducerLogoutKeepsRest(s, a) ==
    IF a.type = "[Auth] Logout Success"
    THEN [s EXCEPT !.ref = nextRef, !.currentUser = NoUser, !.isAuthenticated = FALSE]
    ELSE IF a.type \in HandledTypes THEN on(s, a) ELSE s

\* mutant: the loginFailure case assigns to the state it is given and
\* returns it
userReducerAssigns(s, a) ==
    IF a.type = "[Auth] Login Failure"
    THEN [s EXCEPT !.loading = FALSE, !.error = a.error]
    ELSE IF a.type \in HandledTypes THEN on(s, a) ELSE s

\* mutant: the loginFailure case signs the user out
userReducerFailureSignsOut(s, a) ==
    IF a.type = "[Auth] Login Failure"
    THEN [on(s, a) EXCEPT !.isAuthenticated = FALSE]
    ELSE IF a.type \in HandledTypes THEN on(s, a) ELSE s

\* mutant: the loginFailure case drops the user
userReducerFailureDropsUser(s, a) ==
    IF a.type = "[Auth] Login Failure"
    THEN [on(s, a) EXCEPT !.currentUser = NoUser]
    ELSE IF a.type \in HandledTypes THEN on(s, a) ELSE s

\* mutant: the loginFailure case leaves loading as it is
userReducerFailureKeepsLoading(s, a) ==
    IF a.type = "[Auth] Login Failure"
    THEN [on(s, a) EXCEPT !.loading = s.loading]
    ELSE IF a.type \in HandledTypes THEN on(s, a) ELSE s

\* createReducer: the handler registered for the action's type, else the
\* state given
userReducer(s, a) ==
    IF a.type \in HandledTypes THEN on(s, a) ELSE s

----------------------------------------------------------------------------
(* Selectors (user.selectors.ts) and their observers (store.select):        *)
(* an observer is notified when the selected value differs from the last    *)
(* one delivered to it; objects are compared by identity.                   *)

selectUserState(s) == s.ref
selectCurrentUser(s) == s.currentUser.obj
selectIsAuthenticated(s) == s.isAuthenticated
selectUserLoading(s) == s.loading
selectUserError(s) == s.error
selectUserRole(s) == s.currentUser.role

Selectors == { "userState", "currentUser", "isAuthenticated", "loading", "error", "role" }

Select(k, s) ==
    CASE k = "userState" -> selectUserState(s)
      [] k = "currentUser" -> selectCurrentUser(s)
      [] k = "isAuthenticated" -> selectIsAuthenticated(s)
      [] k = "loading" -> selectUserLoading(s)
      [] k = "error" -> selectUserError(s)
      [] k = "role" -> selectUserRole(s)

\* mutant: store.select without distinctUntilChanged: every published state
\* is delivered
NotifyEveryState(o, s) ==
    [k \in Selectors |-> [last |-> Select(k, s), count |-> o[k].count + 1]]

\* the observers after the store has published s
Notify(o, s) ==
    [k \in Selectors |->
        IF Select(k, s) # o[k].last
        THEN [last |-> Select(k, s), count |-> o[k].count + 1]
        ELSE o[k]]

\* mutant: selectUserRole projects from the slice, not from selectCurrentUser
SelectorInputSlice(k, s) == selectUserState(s)

\* createSelector: the value of the selector's input selector in s, which
\* the memoized projector compares with the one it last ran on
SelectorInput(k, s) ==
    IF k = "role" THEN selectCurrentUser(s) ELSE selectUserState(s)

\* the selectors ks are read in s: a projector runs when its input is not
\* the one cached, and caches it
Memoize(mm, ks, s) ==
    [k \in Selectors |->
        IF k \in ks /\ SelectorInput(k, s) # mm[k].input
        THEN [input |-> SelectorInput(k, s), runs |-> mm[k].runs + 1]
        ELSE mm[k]]

----------------------------------------------------------------------------
(* Router and guards (auth.guard.ts, role.guard.ts, app-routing.module.ts)  *)

Routes == { "/login", "/dashboard", "/admin" }

\* mutant: RoleGuard lets every user with a role through
RoleGuardAnyRole(s) == IF selectUserRole(s) # "undefined" THEN "true" ELSE "/dashboard"

\* TRUE, or the url the guard redirects to
AuthGuard(s) == IF selectIsAuthenticated(s) THEN "true" ELSE "/login"
RoleGuard(s) == IF selectUserRole(s) = "admin" THEN "true" ELSE "/dashboard"

\* where a navigation to `path` ends, with the guards reading s
Resolve(path, s) ==
    CASE path = "/login" -> "/login"
      [] path = "/dashboard" ->
            IF AuthGuard(s) = "true" THEN "/dashboard" ELSE "/login"
      [] path = "/admin" ->
            IF AuthGuard(s) # "true" THEN "/login"
            ELSE IF RoleGuard(s) = "true" THEN "/admin"
            ELSE "/dashboard"

\* the selectors the guards of a route read (store.select ... take(1))
GuardReads(path) ==
    CASE path = "/login" -> {}
      [] path = "/dashboard" -> { "isAuthenticated" }
      [] path = "/admin" -> { "isAuthenticated", "role" }

----------------------------------------------------------------------------
(* History helpers *)

Idle == queue = <<>> /\ scanned = <<>>

IsExternal(a) == a.inv = 0

NumExternal ==
    Cardinality({ i \in 1..Len(log) : IsExternal(log[i]) })
    + Cardinality({ i \in 1..Len(queue) : IsExternal(queue[i]) })

\* invocations whose follow-up action has not been reduced yet
Outstanding == { i \in 1..Len(calls) : calls[i].status # "done" }

Quiescent == Idle /\ Outstanding = {}

----------------------------------------------------------------------------
(* Initial state: the store holds initialUserState, every observer has been *)
(* delivered the initial value (so every selector has run once and cached  *)
(* its input; runs counts from there), no token is stored, the app is on   *)
(* /login.                                                                  *)

Init ==
    /\ state = initialUserState
    /\ nextRef = 1
    /\ token = NoToken
    /\ route = "/login"
    /\ queue = <<>>
    /\ scanned = <<>>
    /\ calls = <<>>
    /\ log = <<>>
    /\ obs = [k \in Selectors |-> [last |-> Select(k, initialUserState), count |-> 0]]
    /\ memo = [k \in Selectors |-> [input |-> SelectorInput(k, initialUserState), runs |-> 0]]

----------------------------------------------------------------------------
(* Steps *)

NoBody == [id |-> "null", role |-> "undefined"]

\* the Authorization header of a request that carries none, and the header
\* entry of an invocation that sends no request
NoHeader == "none"
NoRequest == "no request"

\* mutant: the interceptor sets the header without testing the token
interceptUnconditional(tok) == "Bearer " \o tok

\* AuthInterceptor.intercept: the Authorization header of the request handed
\* to next.handle, tok being what authService.getToken() returned
intercept(tok) ==
    IF tok \notin { NoToken, "" } THEN "Bearer " \o tok ELSE NoHeader

\* an invocation of effect e.  History only: result and body are how its call
\* settled, at is the slice the store held when the invocation started,
\* header the Authorization header its HTTP request left with.
Invocation(e, st, r) ==
    [effect |-> e, status |-> st, result |-> r, body |-> NoBody, at |-> Fields(state),
     header |-> IF e = "logout" THEN NoRequest ELSE intercept(token)]

\* a component calls store.dispatch(a)
Dispatch(a) ==
    /\ Idle
    /\ NumExternal < MaxExt
    /\ queue' = Append(queue, a)
    /\ UNCHANGED <<state, nextRef, token, route, scanned, calls, log, obs, memo>>

\* Dispatch, in the runs checked for liveness
DispatchLive(a) ==
    /\ Idle
    /\ NumExternal < MaxLive
    /\ queue' = Append(queue, a)
    /\ UNCHANGED <<state, nextRef, token, route, scanned, calls, log, obs, memo>>

\* mutant: a follow-up action is reduced from the slice its invocation
\* started with
ReduceStale ==
    /\ queue # <<>>
    /\ scanned = <<>>
    /\ LET a == Head(queue)
           base == IF a.inv = 0 THEN state
                   ELSE [ref |-> state.ref,
                         currentUser |-> calls[a.inv].at.currentUser,
                         isAuthenticated |-> calls[a.inv].at.isAuthenticated,
                         loading |-> calls[a.inv].at.loading,
                         error |-> calls[a.inv].at.error]
           s == userReducer(base, a)
       IN /\ state' = s
          /\ nextRef' = IF s.ref # state.ref THEN nextRef + 1 ELSE nextRef
          /\ obs' = Notify(obs, s)
          /\ memo' = Memoize(memo, Selectors, s)
          /\ log' = Append(log, a)
          /\ scanned' = <<a>>
          /\ queue' = Tail(queue)
          /\ calls' = [i \in 1..Len(calls) |->
                          IF i = a.inv THEN [calls[i] EXCEPT !.status = "done"]
                          ELSE calls[i]]
    /\ UNCHANGED <<token, route>>

\* the store reduces the next action, publishes the state and hands the
\* action to the effects
Reduce ==
    /\ queue # <<>>
    /\ scanned = <<>>
    /\ LET a == Head(queue)
           s == userReducer(state, a)
       IN /\ state' = s
          /\ nextRef' = IF s.ref # state.ref THEN nextRef + 1 ELSE nextRef
          /\ obs' = Notify(obs, s)
          /\ memo' = Memoize(memo, Selectors, s)
          /\ log' = Append(log, a)
          /\ scanned' = <<a>>
          /\ queue' = Tail(queue)
          /\ calls' = [i \in 1..Len(calls) |->
                          IF i = a.inv THEN [calls[i] EXCEPT !.status = "done"]
                          ELSE calls[i]]
    /\ UNCHANGED <<token, route>>

\* mutant: switchMap in place of mergeMap: a new login unsubscribes from the
\* calls of earlier logins
loginEffectSwitchMap ==
    /\ scanned # <<>> /\ Head(scanned).type = "[Auth] Login"
    /\ calls' = Append([i \in 1..Len(calls) |->
                           IF calls[i].effect = "login" /\ calls[i].status = "pending"
                           THEN [calls[i] EXCEPT !.status = "cancelled"]
                           ELSE calls[i]],
                       Invocation("login", "pending", "none"))
    /\ scanned' = <<>>
    /\ UNCHANGED <<state, nextRef, token, route, queue, log, obs, memo>>

\* mutant: catchError on the outer stream of login$: after one rejected login
\* call the effect has completed and starts nothing for later logins
loginEffectOuterCatch ==
    /\ scanned # <<>> /\ Head(scanned).type = "[Auth] Login"
    /\ calls' = IF \E i \in 1..Len(calls) : calls[i].effect = "login"
                                             /\ calls[i].result = "rejected"
                THEN calls
                ELSE Append(calls, Invocation("login", "pending", "none"))
    /\ scanned' = <<>>
    /\ UNCHANGED <<state, nextRef, token, route, queue, log, obs, memo>>

\* login$: mergeMap starts authService.login, the POST is in flight
loginEffect ==
    /\ scanned # <<>> /\ Head(scanned).type = "[Auth] Login"
    /\ calls' = Append(calls, Invocation("login", "pending", "none"))
    /\ scanned' = <<>>
    /\ UNCHANGED <<state, nextRef, token, route, queue, log, obs, memo>>

\* getUserProfile$: mergeMap starts authService.getCurrentUser, the GET is in flight
getUserProfileEffect ==
    /\ scanned # <<>> /\ Head(scanned).type = "[User] Get User Profile"
    /\ calls' = Append(calls, Invocation("getUserProfile", "pending", "none"))
    /\ scanned' = <<>>
    /\ UNCHANGED <<state, nextRef, token, route, queue, log, obs, memo>>

\* mutant: authService.logout() answers later, like an HTTP call
logoutEffectAsync ==
    /\ scanned # <<>> /\ Head(scanned).type = "[Auth] Logout"
    /\ token' = NoToken
    /\ calls' = Append(calls, Invocation("logout", "pending", "none"))
    /\ scanned' = <<>>
    /\ UNCHANGED <<state, nextRef, route, queue, log, obs, memo>>

\* mutant: logout() can fail, and logout$ maps the failure to a failure action
logoutEffectFailureAction ==
    /\ scanned # <<>> /\ Head(scanned).type = "[Auth] Logout"
    /\ token' = NoToken
    /\ \E ok \in BOOLEAN :
          /\ calls' = Append(calls, Invocation("logout", "settled",
                                               IF ok THEN "resolved" ELSE "rejected"))
          /\ queue' = Append(queue, IF ok THEN logoutSuccess(Len(calls) + 1)
                                    ELSE loginFailure("Logout failed", Len(calls) + 1))
    /\ scanned' = <<>>
    /\ UNCHANGED <<state, nextRef, route, log, obs, memo>>

\* mutant: AuthService.logout does not remove the token
logoutEffectKeepsToken ==
    /\ scanned # <<>> /\ Head(scanned).type = "[Auth] Logout"
    /\ calls' = Append(calls, Invocation("logout", "settled", "resolved"))
    /\ queue' = Append(queue, logoutSuccess(Len(calls) + 1))
    /\ scanned' = <<>>
    /\ UNCHANGED <<state, nextRef, token, route, log, obs, memo>>

\* logout$: authService.logout() removes the token and returns of(void 0),
\* which emits at once: logoutSuccess is dispatched before the effect returns
logoutEffect ==
    /\ scanned # <<>> /\ Head(scanned).type = "[Auth] Logout"
    /\ token' = NoToken
    /\ calls' = Append(calls, Invocation("logout", "settled", "resolved"))
    /\ queue' = Append(queue, logoutSuccess(Len(calls) + 1))
    /\ scanned' = <<>>
    /\ UNCHANGED <<state, nextRef, route, log, obs, memo>>

\* mutant: loginSuccess$ without { dispatch: false }: what tap lets through,
\* the loginSuccess it observed, is dispatched again
loginSuccessEffectDispatching ==
    /\ scanned # <<>> /\ Head(scanned).type = "[Auth] Login Success"
    /\ route' = Resolve("/dashboard", state)
    /\ queue' = Append(queue, Head(scanned))
    /\ scanned' = <<>>
    /\ UNCHANGED <<state, nextRef, token, calls, log, obs, memo>>

\* loginSuccess$ (dispatch: false): router.navigate(['/dashboard'])
loginSuccessEffect ==
    /\ scanned # <<>> /\ Head(scanned).type = "[Auth] Login Success"
    /\ route' = Resolve("/dashboard", state)
    /\ scanned' = <<>>
    /\ UNCHANGED <<state, nextRef, token, queue, calls, log, obs, memo>>

\* logoutSuccess$ (dispatch: false): router.navigate(['/login'])
logoutSuccessEffect ==
    /\ scanned # <<>> /\ Head(scanned).type = "[Auth] Logout Success"
    /\ route' = Resolve("/login", state)
    /\ scanned' = <<>>
    /\ UNCHANGED <<state, nextRef, token, queue, calls, log, obs, memo>>

\* mutant: an effect on loginFailure dispatches login again (a retry)
noEffectRetry ==
    /\ scanned # <<>>
    /\ Head(scanned).type \notin
          (TriggerTypes \cup {"[Auth] Login Success", "[Auth] Logout Success"})
    /\ queue' = IF Head(scanned).type = "[Auth] Login Failure"
                THEN Append(queue, login("a:b")) ELSE queue
    /\ scanned' = <<>>
    /\ UNCHANGED <<state, nextRef, token, route, calls, log, obs, memo>>

\* an action no effect's ofType lets through
noEffect ==
    /\ scanned # <<>>
    /\ Head(scanned).type \notin
          (TriggerTypes \cup {"[Auth] Login Success", "[Auth] Logout Success"})
    /\ scanned' = <<>>
    /\ UNCHANGED <<state, nextRef, token, route, queue, calls, log, obs, memo>>

\* the call of invocation i settles with result r and body b, and the effect
\* dispatches the follow-up action a
FollowUp(i, r, b, a) ==
    /\ calls' = [calls EXCEPT ![i].status = "settled", ![i].result = r, ![i].body = b]
    /\ queue' = Append(queue, a)

\* mutant: the login call's completion also writes the user into the slice
LoginResolveDirect(i, r) ==
    /\ Idle
    /\ i \in 1..Len(calls)
    /\ calls[i].effect = "login" /\ calls[i].status = "pending"
    /\ token' = r.token
    /\ state' = [state EXCEPT !.currentUser = UserObject(r.user, i)]
    /\ FollowUp(i, "resolved", r.user, loginSuccess(UserObject(r.user, i), i))
    /\ UNCHANGED <<nextRef, route, scanned, log, obs, memo>>

\* mutant: AuthService.login stores the token only when none is stored
LoginResolveKeepsToken(i, r) ==
    /\ Idle
    /\ i \in 1..Len(calls)
    /\ calls[i].effect = "login" /\ calls[i].status = "pending"
    /\ token' = IF token = NoToken THEN r.token ELSE token
    /\ FollowUp(i, "resolved", r.user, loginSuccess(UserObject(r.user, i), i))
    /\ UNCHANGED <<state, nextRef, route, scanned, log, obs, memo>>

\* POST api/auth/login answers r: AuthService.login stores the token and maps
\* to the user, login$ maps to loginSuccess
LoginResolve(i, r) ==
    /\ Idle
    /\ i \in 1..Len(calls)
    /\ calls[i].effect = "login" /\ calls[i].status = "pending"
    /\ token' = r.token
    /\ FollowUp(i, "resolved", r.user, loginSuccess(UserObject(r.user, i), i))
    /\ UNCHANGED <<state, nextRef, route, scanned, log, obs, memo>>

\* what an HTTP call can fail with: status codes, 0 for a network failure
HttpErrors == {"401", "500", "0"}

\* mutant: AuthService.login lets the HTTP error through
loginCatchErrorRethrow(e) == e

\* catchError of AuthService.login: any error becomes Error('Invalid credentials')
loginCatchError(e) == "Invalid credentials"

\* catchError of AuthService.getCurrentUser: any error becomes
\* Error('Failed to fetch user profile')
getCurrentUserCatchError(e) == "Failed to fetch user profile"

\* mutant: login$ has no catchError: the error ends the invocation without
\* a follow-up action
LoginRejectUncaught(i) ==
    /\ Idle
    /\ i \in 1..Len(calls)
    /\ calls[i].effect = "login" /\ calls[i].status = "pending"
    /\ calls' = [calls EXCEPT ![i].status = "errored", ![i].result = "rejected"]
    /\ UNCHANGED <<state, nextRef, token, route, queue, scanned, log, obs, memo>>

\* POST api/auth/login fails: AuthService.login rethrows
\* Error('Invalid credentials'), login$ maps to loginFailure({error: message})
LoginReject(i) ==
    /\ Idle
    /\ i \in 1..Len(calls)
    /\ calls[i].effect = "login" /\ calls[i].status = "pending"
    /\ \E e \in HttpErrors :
          FollowUp(i, "rejected", NoBody, loginFailure(loginCatchError(e), i))
    /\ UNCHANGED <<state, nextRef, token, route, scanned, log, obs, memo>>

\* GET api/auth/me answers u: getUserProfile$ maps to getUserProfileSuccess
ProfileResolve(i, u) ==
    /\ Idle
    /\ i \in 1..Len(calls)
    /\ calls[i].effect = "getUserProfile" /\ calls[i].status = "pending"
    /\ FollowUp(i, "resolved", u, getUserProfileSuccess(UserObject(u, i), i))
    /\ UNCHANGED <<state, nextRef, token, route, scanned, log, obs, memo>>

\* GET api/auth/me fails: AuthService.getCurrentUser rethrows
\* Error('Failed to fetch user profile'), getUserProfile$ maps to loginFailure
ProfileReject(i) ==
    /\ Idle
    /\ i \in 1..Len(calls)
    /\ calls[i].effect = "getUserProfile" /\ calls[i].status = "pending"
    /\ \E e \in HttpErrors :
          FollowUp(i, "rejected", NoBody, loginFailure(getCurrentUserCatchError(e), i))
    /\ UNCHANGED <<state, nextRef, token, route, scanned, log, obs, memo>>

\* the user navigates to a route; the route's guards read the current state
Navigate(path) ==
    /\ Idle
    /\ route' = Resolve(path, state)
    /\ memo' = Memoize(memo, GuardReads(path), state)
    /\ UNCHANGED <<state, nextRef, token, queue, scanned, calls, log, obs>>

\* the call of invocation i settles, one way or the other
Settle(i) ==
    \/ \E r \in Responses : LoginResolve(i, r)
    \/ LoginReject(i)
    \/ \E u \in Profiles : ProfileResolve(i, u)
    \/ ProfileReject(i)

\* the effects see the action just reduced
RunEffects ==
    \/ loginEffect
    \/ getUserProfileEffect
    \/ logoutEffect
    \/ loginSuccessEffect
    \/ logoutSuccessEffect
    \/ noEffect

Next ==
    \/ \E a \in ExternalActions : Dispatch(a)
    \/ Reduce
    \/ RunEffects
    \/ \E i \in 1..MaxExt : Settle(i)
    \/ \E p \in Routes : Navigate(p)

Spec == Init /\ [][Next]_vars

NextLive ==
    \/ \E a \in ExternalActions : DispatchLive(a)
    \/ Reduce
    \/ RunEffects
    \/ \E i \in 1..MaxLive : Settle(i)
    \/ \E p \in Routes : Navigate(p)

\* the store's own processing is synchronous code that runs to completion,
\* and every call eventually resolves or rejects
Fairness ==
    /\ WF_vars(Reduce)
    /\ WF_vars(RunEffects)
    /\ \A i \in 1..MaxLive : WF_vars(Settle(i))

FairSpec == Init /\ [][NextLive]_vars /\ Fairness

----------------------------------------------------------------------------
(* The reducer on its own: userReducer applied to any slice and any action, *)
(* as the store does in Reduce, without effects, calls or router.           *)

\* the messages the effects put in loginFailure
Errors == { "Invalid credentials", "Failed to fetch user profile" }

\* any slice object the UserState interface admits over the model's users
AnyState ==
    { [ref |-> 1, currentUser |-> u, isAuthenticated |-> b, loading |-> l, error |-> e] :
        u \in { UserObject(x, 1) : x \in Profiles } \cup { NoUser },
        b \in BOOLEAN, l \in BOOLEAN, e \in Errors \cup { NoError } }

\* any action of the seven creators, and one of another type
AnyAction ==
    { login(c) : c \in Credentials }
    \cup { loginSuccess(UserObject(u, 2), 0) : u \in Profiles }
    \cup { loginFailure(e, 0) : e \in Errors }
    \cup { logout, logoutSuccess(0), getUserProfile, otherAction }
    \cup { getUserProfileSuccess(UserObject(u, 2), 0) : u \in Profiles }

InitReducer ==
    /\ state \in { initialUserState } \cup AnyState
    /\ nextRef = 2
    /\ token = NoToken
    /\ route = "/login"
    /\ queue = <<>>
    /\ scanned = <<>>
    /\ calls = <<>>
    /\ log = <<>>
    /\ obs = [k \in Selectors |-> [last |-> Select(k, state), count |-> 0]]
    /\ memo = [k \in Selectors |-> [input |-> SelectorInput(k, state), runs |-> 0]]

\* the store reduces action a from the slice it holds and publishes the result
Apply(a) ==
    /\ Len(log) < MaxApply
    /\ LET s == userReducer(state, a)
       IN /\ state' = s
          /\ nextRef' = IF s.ref # state.ref THEN nextRef + 1 ELSE nextRef
          /\ obs' = Notify(obs, s)
          /\ memo' = Memoize(memo, Selectors, s)
          /\ log' = Append(log, a)
    /\ UNCHANGED <<token, route, queue, scanned, calls>>

NextReducer == \E a \in AnyAction : Apply(a)

ReducerSpec == InitReducer /\ [][NextReducer]_vars

\* the reducer on its own, started from initialUserState
InitInitial == InitReducer /\ state = initialUserState

InitialSpec == InitInitial /\ [][NextReducer]_vars

----------------------------------------------------------------------------
(* Properties *)

\* the slice after the actions of a sequence have been reduced in order
RECURSIVE Replay(_, _)
Replay(s, seq) ==
    IF seq = <<>> THEN s ELSE Replay(userReducer(s, Head(seq)), Tail(seq))

\* a Reduce step is about to be taken
Reducing == queue # <<>> /\ scanned = <<>>

\* the effects are about to see a reduced action of one of the types ts
Seeing(ts) == scanned # <<>> /\ Head(scanned).type \in ts

\* the run so far is: one login dispatched, its call resolved, nothing else
\* dispatched by a component, and nothing left to do
LoginScenario ==
    /\ Quiescent
    /\ NumExternal = 1
    /\ Len(calls) = 1
    /\ calls[1].effect = "login"
    /\ calls[1].result = "resolved"

\* C1: after one login whose call resolved with user u and nothing else, the
\* slice at quiescence has currentUser = u, isAuthenticated, not loading, no error.
LoginScenarioFinalState ==
    LoginScenario =>
        /\ state.currentUser.id = calls[1].body.id
        /\ state.currentUser.role = calls[1].body.role
        /\ state.isAuthenticated = TRUE
        /\ state.loading = FALSE
        /\ state.error = NoError

LoginScenarioFinalStateWitness ==
    LoginScenario /\ state.currentUser.id = "1" /\ Len(log) = 2

\* C2 as stated: in the login scenario the observer of the whole user slice
\* is notified exactly once.
LoginScenarioNotifiedOnce ==
    LoginScenario => obs["userState"].count = 1

\* C2 amended: in the login scenario the observer of the whole user slice is
\* notified exactly twice, after login (loading set) and after loginSuccess.
LoginScenarioNotifiedTwice ==
    LoginScenario => obs["userState"].count = 2

LoginScenarioNotifiedTwiceWitness ==
    LoginScenario /\ obs["userState"].count = 2 /\ obs["loading"].count = 2

\* C3: reducing an action of an unhandled type leaves the slice the same
\* object, notifies no observer, and the effects start nothing for it.
UnrecognizedActionNoOp ==
    [][ /\ (Reducing /\ Head(queue).type \notin HandledTypes) =>
              (state' = state /\ obs' = obs /\ calls' = calls /\ nextRef' = nextRef)
        /\ (scanned # <<>> /\ Head(scanned).type \notin HandledTypes) =>
              (calls' = calls /\ queue' = queue /\ state' = state /\ obs' = obs
               /\ token' = token /\ route' = route)
      ]_vars

UnrecognizedActionNoOpWitness ==
    /\ Idle
    /\ Len(log) >= 2
    /\ log[Len(log)].type = "[Other] Unknown"
    /\ state.ref # 0
    /\ state.loading

\* C4 as stated: whenever the reduced slice has the same four field values as
\* before, the store holds the same object as before.
SameValuesSameReference ==
    [][ (Reducing /\ Fields(userReducer(state, Head(queue))) = Fields(state)) =>
            state'.ref = state.ref ]_vars

\* C4 amended: when the reduced slice has the same four field values as
\* before, the store holds the same object exactly when the action's type
\* is unhandled; each of the seven cases returns a new object.
SameReferenceOnlyIfUnhandled ==
    [][ (Reducing /\ Fields(userReducer(state, Head(queue))) = Fields(state)) =>
            (state'.ref = state.ref <=> Head(queue).type \notin HandledTypes) ]_vars

\* logout reduced while loading was already set: same values, new object
SameReferenceOnlyIfUnhandledWitness ==
    /\ Len(log) = 2
    /\ log[1].type = "[Auth] Login"
    /\ log[2].type = "[Auth] Logout"
    /\ state.ref = 2
    /\ state.loading

\* C5: the four fields of the slice are those obtained by replaying the
\* reduced actions from initialUserState, whatever the token, the route and
\* the outstanding invocations are.
DeterministicReplay ==
    Fields(state) = Fields(Replay(initialUserState, log))

DeterministicReplayWitness ==
    /\ Len(log) >= 4
    /\ Outstanding # {}
    /\ token # NoToken
    /\ route = "/admin"
    /\ state.error # NoError

\* C6: the slice changes only in a Reduce step, to userReducer's result; a
\* step that starts or settles a call, writes or removes the token, or moves
\* the router leaves the slice as it is.
DispatchIsOnlyWriter ==
    [][ /\ state' # state =>
              (Reducing /\ state' = userReducer(state, Head(queue))
               /\ token' = token /\ route' = route /\ Len(calls') = Len(calls))
        /\ (\/ token' # token
            \/ route' # route
            \/ Len(calls') # Len(calls)
            \/ \E i \in 1..Len(calls) : calls[i].status = "pending"
                                         /\ calls'[i].status # "pending")
             => state' = state
      ]_vars

\* a login call has resolved and stored the token, loginSuccess is not reduced yet
DispatchIsOnlyWriterWitness ==
    /\ token # NoToken
    /\ ~state.isAuthenticated
    /\ queue # <<>>
    /\ Head(queue).type = "[Auth] Login Success"

EffectOf(type) ==
    CASE type = "[Auth] Login" -> "login"
      [] type = "[Auth] Logout" -> "logout"
      [] type = "[User] Get User Profile" -> "getUserProfile"

\* C7: each trigger that the effects see starts one more invocation of its
\* own effect at once and leaves every earlier invocation as it is; an
\* invocation waiting for its call stays so until its own call settles.
ConcurrentStrategy ==
    [][ /\ Seeing(TriggerTypes) =>
              /\ scanned' = <<>>
              /\ Len(calls') = Len(calls) + 1
              /\ calls'[Len(calls')].effect = EffectOf(Head(scanned).type)
              /\ \A i \in 1..Len(calls) : calls'[i] = calls[i]
        /\ \A i \in 1..Len(calls) :
              calls[i].status = "pending" =>
                  /\ calls'[i].status \in {"pending", "settled"}
                  /\ calls'[i].status = "settled" =>
                        (Idle /\ Len(queue') = 1 /\ queue'[1].inv = i)
      ]_vars

\* two logins overlapped and the second one's follow-up was reduced first
ConcurrentStrategyWitness ==
    /\ Len(calls) >= 2
    /\ calls[1].effect = "login" /\ calls[2].effect = "login"
    /\ calls[1].status = "pending"
    /\ calls[2].status = "done"
    /\ calls[2].at.loading

\* C8 as stated: no effect dispatches its follow-up action while it is
\* handling the trigger.
FollowUpNeverInTriggerHandling ==
    [][ Seeing(TriggerTypes) => queue' = queue ]_vars

LogoutPending == \E i \in 1..Len(calls) : calls[i].effect = "logout" /\ calls[i].status # "done"

\* C8 amended: login$ and getUserProfile$ dispatch nothing while handling
\* the trigger, and their follow-up is dispatched from an idle store; logout$
\* dispatches logoutSuccess while handling logout, and no component
\* dispatches or call settles before that logoutSuccess is reduced.
FollowUpCycles ==
    [][ /\ Seeing({"[Auth] Login", "[User] Get User Profile"}) => queue' = queue
        /\ Seeing({"[Auth] Logout"}) =>
              queue' = Append(queue, logoutSuccess(Len(calls) + 1))
        /\ (\E i \in 1..Len(calls) : calls[i].effect # "logout"
                                      /\ calls[i].status = "pending"
                                      /\ calls'[i].status = "settled")
              => (Idle /\ Len(queue') = 1)
        /\ LogoutPending =>
              /\ NumExternal' = NumExternal
              /\ \A i \in 1..Len(calls) :
                    calls[i].status = "pending" => calls'[i].status = "pending"
              /\ (state' # state => state'.isAuthenticated = FALSE)
      ]_vars

\* logout reduced (loading published to the observers), logoutSuccess waiting
FollowUpCyclesWitness ==
    /\ LogoutPending
    /\ state.loading /\ state.isAuthenticated
    /\ obs["loading"].last = TRUE
    /\ queue # <<>> /\ Head(queue).type = "[Auth] Logout Success"
    /\ \E i \in 1..Len(calls) : calls[i].status = "pending"

LateProfile ==
    /\ Len(log) >= 3
    /\ log[Len(log)].type = "[User] Get User Profile Success"
    /\ log[Len(log) - 1].type = "[Auth] Logout Success"
    /\ calls[log[Len(log)].inv].at.isAuthenticated

\* C9: a follow-up action is reduced from the slice current at that moment:
\* loginFailure keeps its currentUser and isAuthenticated,
\* getUserProfileSuccess its isAuthenticated and error; a
\* getUserProfileSuccess(u) arriving right after logoutSuccess, for a
\* getUserProfile dispatched while authenticated, yields currentUser = u and
\* isAuthenticated = false.
FollowUpSeesCurrentState ==
    /\ [][ Reducing =>
              /\ Head(queue).type = "[Auth] Login Failure" =>
                    /\ state'.currentUser = state.currentUser
                    /\ state'.isAuthenticated = state.isAuthenticated
              /\ Head(queue).type = "[User] Get User Profile Success" =>
                    /\ state'.isAuthenticated = state.isAuthenticated
                    /\ state'.error = state.error
          ]_vars
    /\ [](LateProfile =>
              /\ state.currentUser = log[Len(log)].user
              /\ state.isAuthenticated = FALSE)

FollowUpSeesCurrentStateWitness ==
    /\ LateProfile
    /\ state.currentUser.id = "2"
    /\ ~state.isAuthenticated
    /\ calls[log[Len(log)].inv].at.currentUser.id = "1"

FollowUpsInLog(i) == { k \in 1..Len(log) : log[k].inv = i }
FollowUpsInQueue(i) == { k \in 1..Len(queue) : queue[k].inv = i }

FollowUpTypes(e) ==
    CASE e = "login" -> {"[Auth] Login Success", "[Auth] Login Failure"}
      [] e = "getUserProfile" -> {"[User] Get User Profile Success", "[Auth] Login Failure"}
      [] e = "logout" -> {"[Auth] Logout Success"}

\* the triggers dispatched so far, in order; the j-th starts invocation j
IsTrigger(a) == a.type \in TriggerTypes
Triggers == SelectSeq(log \o queue, IsTrigger)

AtMostOneFollowUp ==
    \A i \in 1..Len(calls) :
        /\ calls[i].status \in {"pending", "settled", "done"}
        /\ Cardinality(FollowUpsInLog(i)) + Cardinality(FollowUpsInQueue(i)) <= 1
        /\ \A k \in FollowUpsInLog(i) : log[k].type \in FollowUpTypes(calls[i].effect)

\* C10: no invocation is cancelled or gets two follow-up actions, a
\* follow-up is of a type its effect dispatches, and every login and
\* getUserProfile dispatched is eventually followed by the one follow-up
\* action of its invocation.
EveryInvocationSettles ==
    /\ []AtMostOneFollowUp
    /\ \A j \in 1..MaxLive :
          []((/\ Len(Triggers) >= j
              /\ Triggers[j].type \in {"[Auth] Login", "[User] Get User Profile"})
             => <>(/\ Len(calls) >= j
                   /\ calls[j].status = "done"
                   /\ Cardinality(FollowUpsInLog(j)) = 1))

EveryInvocationSettlesWitness ==
    /\ Quiescent
    /\ Len(calls) = 2
    /\ calls[1].effect = "login" /\ calls[1].result = "rejected"
    /\ calls[2].effect = "getUserProfile" /\ calls[2].result = "rejected"

\* some call of login$ or getUserProfile$ has been rejected
SomeRejected == \E i \in 1..Len(calls) : calls[i].result = "rejected"

\* C11: a rejected call of login$ or getUserProfile$ ends only its own
\* invocation: afterwards every trigger the effects see still starts an
\* invocation, the invocations waiting when another one's call is rejected
\* are left as they are, and every trigger dispatched, before or after the
\* failure, is eventually followed by the one follow-up of its invocation.
EffectFailuresIsolated ==
    /\ [][ /\ (SomeRejected /\ Seeing(TriggerTypes)) =>
                 /\ Len(calls') = Len(calls) + 1
                 /\ calls'[Len(calls')].effect = EffectOf(Head(scanned).type)
           /\ \A i, k \in 1..Len(calls) :
                 (/\ i # k
                  /\ calls[i].status = "pending"
                  /\ calls[k].status = "pending"
                  /\ calls'[k].result = "rejected") => calls'[i] = calls[i]
         ]_vars
    /\ \A j \in 1..MaxLive :
          []((SomeRejected /\ Len(Triggers) >= j)
             => <>(/\ Len(calls) >= j
                   /\ calls[j].status = "done"
                   /\ Cardinality(FollowUpsInLog(j)) = 1))

\* a login call was rejected; the getUserProfile dispatched after that
\* failure was reduced got its call and its follow-up
EffectFailuresIsolatedWitness ==
    /\ Len(calls) = 2
    /\ calls[1].effect = "login" /\ calls[1].result = "rejected"
    /\ calls[2].effect = "getUserProfile"
    /\ calls[2].at.error = "Invalid credentials"
    /\ calls[2].status = "done" /\ calls[2].result = "resolved"

\* the message the service of effect e puts in place of the call's error
FailureMessage(e) ==
    CASE e = "login" -> "Invalid credentials"
      [] e = "getUserProfile" -> "Failed to fetch user profile"

\* C12: when the call of a login or getUserProfile invocation is rejected,
\* whatever the error, loginFailure is dispatched; the slice after that
\* loginFailure has error 'Invalid credentials' for login and 'Failed to
\* fetch user profile' for getUserProfile, loading = false, and the
\* currentUser and isAuthenticated it had just before.
FailureBecomesState ==
    [][ /\ \A i \in 1..Len(calls) :
              (calls[i].status = "pending" /\ calls'[i].result = "rejected") =>
                  /\ Len(queue') = 1
                  /\ queue'[1].type = "[Auth] Login Failure"
                  /\ queue'[1].inv = i
        /\ (Reducing /\ Head(queue).type = "[Auth] Login Failure") =>
              /\ state'.error = FailureMessage(calls[Head(queue).inv].effect)
              /\ state'.loading = FALSE
              /\ state'.currentUser = state.currentUser
              /\ state'.isAuthenticated = state.isAuthenticated
      ]_vars

\* a profile call failed while a user was signed in: the error is in the
\* slice, the user is still there
FailureBecomesStateWitness ==
    /\ Idle
    /\ log # <<>> /\ log[Len(log)].type = "[Auth] Login Failure"
    /\ state.error = "Failed to fetch user profile"
    /\ ~state.loading
    /\ state.isAuthenticated
    /\ state.currentUser.id = "1"

IsLogout(a) == a.type = "[Auth] Logout"
IsLogoutSuccess(a) == a.type = "[Auth] Logout Success"

Applied(t) == Len(log') = Len(log) + 1 /\ log'[Len(log')].type = t

\* C14: from any slice, whatever its four fields, reducing logoutSuccess
\* gives currentUser = null, isAuthenticated = false, loading = false and
\* error = null, the four fields of initialUserState.
LogoutSuccessResets ==
    [][ Applied("[Auth] Logout Success") =>
            /\ state'.currentUser = NoUser
            /\ state'.isAuthenticated = FALSE
            /\ state'.loading = FALSE
            /\ state'.error = NoError
            /\ Fields(state') = Fields(initialUserState) ]_vars

\* logoutSuccess applied to a slice with a user, authenticated, an error
\* and not loading (getUserProfile's call failed while signed in)
LogoutSuccessResetsWitness ==
    /\ Len(log) = 2
    /\ log[1].type = "[Auth] Login Failure"
    /\ log[2].type = "[Auth] Logout Success"
    /\ obs["currentUser"].count = 1
    /\ obs["isAuthenticated"].count = 1
    /\ obs["error"].count = 2
    /\ obs["loading"].count = 0
    /\ Fields(state) = Fields(initialUserState)

IsLoginSuccess(a) == a.type = "[Auth] Login Success"

\* calls of effect e that settled with result r
Settled(e, r) ==
    { i \in 1..Len(calls) : calls[i].effect = e /\ calls[i].result = r
                              /\ calls[i].status \in {"settled", "done"} }

\* C15: when the effects see a loginSuccess the step is one navigation to
\* /dashboard, when they see a logoutSuccess one navigation to /login; the
\* step dispatches nothing and starts no call, and the action seen is handed
\* to the effects once.  So there are exactly as many loginSuccess actions
\* as resolved login calls and as many logoutSuccess actions as logout calls.
NonDispatchingEffects ==
    /\ [][ /\ Seeing({"[Auth] Login Success"}) =>
                 (route' = "/dashboard" /\ queue' = queue /\ calls' = calls
                  /\ scanned' = <<>> /\ log' = log /\ state' = state)
           /\ Seeing({"[Auth] Logout Success"}) =>
                 (route' = "/login" /\ queue' = queue /\ calls' = calls
                  /\ scanned' = <<>> /\ log' = log /\ state' = state)
         ]_vars
    /\ [](/\ Len(SelectSeq(log \o queue, IsLoginSuccess))
               = Cardinality(Settled("login", "resolved"))
          /\ Len(SelectSeq(log \o queue, IsLogoutSuccess))
               = Cardinality(Settled("logout", "resolved")))

\* loginSuccess$ moved the router from /login to /dashboard and the store is idle
NonDispatchingEffectsWitness ==
    /\ Idle
    /\ Len(log) = 2
    /\ IsLoginSuccess(log[2])
    /\ route = "/dashboard"

\* the actions whose case leaves the currentUser reference as it is
KeepsCurrentUser ==
    { "[Auth] Login", "[Auth] Login Failure", "[Auth] Logout", "[User] Get User Profile" }

\* C16: the projector of selectUserRole runs once when a dispatch replaces
\* the currentUser reference and not at all otherwise: not for login,
\* loginFailure, logout or getUserProfile, and not when a guard reads the
\* selector between dispatches.  A projector runs only when its input
\* selector returns a value that is not the cached one, and one run makes
\* the cache current.
SelectorMemoization ==
    /\ [][ /\ memo'["role"].runs = memo["role"].runs
                  + (IF state'.currentUser.obj # state.currentUser.obj THEN 1 ELSE 0)
           /\ (Reducing /\ Head(queue).type \in KeepsCurrentUser) =>
                 memo'["role"] = memo["role"]
           /\ ~Reducing => memo' = memo
           /\ \A k \in Selectors :
                 memo'[k].runs # memo[k].runs =>
                     /\ memo'[k].runs = memo[k].runs + 1
                     /\ memo'[k].input # memo[k].input
         ]_vars
    /\ [](/\ memo["role"].input = state.currentUser.obj
          /\ \A k \in Selectors \ {"role"} : memo[k].input = state.ref)

\* four dispatches replaced the slice four times and the user once; the
\* guards of /admin read selectUserRole to let the navigation through
SelectorMemoizationWitness ==
    /\ Idle
    /\ Len(log) = 4
    /\ log[4].type = "[Auth] Login Failure"
    /\ route = "/admin"
    /\ memo["currentUser"].runs = 4
    /\ memo["role"].runs = 1

\* the selectors of single fields and of the role, observed by components
FieldSelectors == { "isAuthenticated", "loading", "error", "currentUser", "role" }

\* C17: an observer of selectIsAuthenticated, selectUserLoading,
\* selectUserError, selectCurrentUser or selectUserRole is notified after a
\* reduction exactly when the selected value is not the one last delivered
\* to it (the user object compared by identity), so never twice in a row
\* with the same value; login reduced while authenticated notifies no
\* observer of selectIsAuthenticated.
DistinctDelivery ==
    /\ [][ /\ \A k \in FieldSelectors :
                 /\ obs'[k].count = obs[k].count
                        + (IF Select(k, state') # obs[k].last THEN 1 ELSE 0)
                 /\ obs'[k].count # obs[k].count =>
                        (obs'[k].last # obs[k].last /\ obs'[k].last = Select(k, state'))
                 /\ obs'[k].count = obs[k].count => obs'[k].last = obs[k].last
           /\ (Applied("[Auth] Login") /\ state.isAuthenticated) =>
                 obs'["isAuthenticated"] = obs["isAuthenticated"]
         ]_vars
    /\ [](\A k \in FieldSelectors : obs[k].last = Select(k, state))

\* login applied to an authenticated slice that was not loading: the
\* observer of loading was notified, the one of isAuthenticated was not
DistinctDeliveryWitness ==
    /\ Len(log) = 1
    /\ log[1].type = "[Auth] Login"
    /\ state.isAuthenticated
    /\ obs["isAuthenticated"].count = 0
    /\ obs["loading"].count = 1
    /\ obs["currentUser"].count = 0

\* C18: the reducer never changes an object it was given: the slice object
\* held after a reduction either is the one held before, with the same four
\* field values, or is a new object with an identity never used; the
\* initialUserState object keeps its values; and the object logoutSuccess
\* produces is a new one, not initialUserState itself.
SnapshotsNeverMutated ==
    /\ [][ /\ state'.ref = state.ref => Fields(state') = Fields(state)
           /\ state'.ref # state.ref =>
                 (state'.ref = nextRef /\ nextRef' = nextRef + 1 /\ state'.ref # 0)
           /\ Applied("[Auth] Logout Success") =>
                 (state'.ref # initialUserState.ref /\ state'.ref # state.ref)
         ]_vars
    /\ [](/\ state.ref < nextRef
          /\ state.ref = initialUserState.ref =>
                Fields(state) = Fields(initialUserState))

\* logoutSuccess applied after loginSuccess, starting from initialUserState:
\* the slice has the initial values in a third object
SnapshotsNeverMutatedWitness ==
    /\ Len(log) = 2
    /\ IsLoginSuccess(log[1])
    /\ IsLogoutSuccess(log[2])
    /\ state.ref = 3
    /\ obs["userState"].count = 2
    /\ obs["error"].count = 0
    /\ obs["loading"].count = 0
    /\ Fields(state) = Fields(initialUserState)

\* C19: a navigation to /admin is activated exactly when the slice read by
\* the guards is authenticated with a currentUser of role admin, one to
\* /dashboard exactly when it is authenticated; AuthGuard's denial ends on
\* /login, RoleGuard's on /dashboard; the decision reads the slice of that
\* moment, not the token, and changes neither.
RoleBasedAccess ==
    [][ /\ \A p \in Routes :
              Navigate(p) =>
                  /\ p = "/admin" =>
                        (route' = "/admin" <=>
                            (state.isAuthenticated /\ state.currentUser.role = "admin"))
                  /\ p = "/dashboard" =>
                        (route' = "/dashboard" <=> state.isAuthenticated)
                  /\ (p \in {"/admin", "/dashboard"} /\ ~state.isAuthenticated) =>
                        route' = "/login"
                  /\ (p = "/admin" /\ state.isAuthenticated
                        /\ state.currentUser.role # "admin") => route' = "/dashboard"
                  /\ state' = state /\ token' = token
        /\ (route' = "/admin" /\ route # "/admin") =>
              (state.isAuthenticated /\ state.currentUser.role = "admin")
        /\ (route' = "/dashboard" /\ route # "/dashboard") => state.isAuthenticated
      ]_vars

\* the admin route is active for a signed-in admin
RoleBasedAccessWitness ==
    /\ Idle
    /\ route = "/admin"
    /\ state.isAuthenticated
    /\ state.currentUser.role = "admin"
    /\ Len(log) = 2

\* the place in the log of the trigger that started invocation i
TriggerPos(i) ==
    CHOOSE k \in 1..Len(log) :
        /\ IsTrigger(log[k])
        /\ Cardinality({ j \in 1..k : IsTrigger(log[j]) }) = i

\* invocation i started after a logout was handled and before a login
\* response stored a token again
AfterLogout(i) ==
    \E j \in 1..(TriggerPos(i) - 1) :
        /\ IsLogout(log[j])
        /\ \A l \in (j + 1)..(TriggerPos(i) - 1) : ~IsLoginSuccess(log[l])

\* C20: the request of a login or getUserProfile invocation leaves the
\* interceptor with Authorization 'Bearer <token>' when a token is stored at
\* that moment, <token> being the stored value, and without the header when
\* none is stored; so a request sent after a logout was handled and before
\* the next login response carries no Authorization header.
AuthenticatedRequests ==
    /\ [][ Seeing({"[Auth] Login", "[User] Get User Profile"}) =>
              /\ Len(calls') = Len(calls) + 1
              /\ token # NoToken =>
                    calls'[Len(calls')].header = "Bearer " \o token
              /\ token = NoToken => calls'[Len(calls')].header = NoHeader
              /\ token' = token
         ]_vars
    /\ [](\A i \in 1..Len(calls) :
             (calls[i].effect # "logout" /\ AfterLogout(i)) =>
                 calls[i].header = NoHeader)

\* the login request left without the header, its response stored tokB, and
\* the profile request that followed left with Bearer tokB
AuthenticatedRequestsWitness ==
    /\ Len(calls) = 2
    /\ calls[1].effect = "login" /\ calls[1].header = NoHeader
    /\ calls[1].result = "resolved" /\ calls[1].body.id = "2"
    /\ calls[2].effect = "getUserProfile" /\ calls[2].header = "Bearer tokB"
    /\ token = "tokB"

\* C21: reducing login, loginFailure, logout or getUserProfile leaves
\* currentUser and isAuthenticated as they are, getUserProfileSuccess leaves
\* isAuthenticated and error as they are; isAuthenticated goes from false
\* to true only when loginSuccess is reduced and from true to false only
\* when logoutSuccess is reduced.
AuthChangesOnlyOnSuccess ==
    [][ /\ \A t \in KeepsCurrentUser :
              Applied(t) =>
                  /\ state'.currentUser = state.currentUser
                  /\ state'.isAuthenticated = state.isAuthenticated
        /\ Applied("[User] Get User Profile Success") =>
              /\ state'.isAuthenticated = state.isAuthenticated
              /\ state'.error = state.error
        /\ (~state.isAuthenticated /\ state'.isAuthenticated) =>
              Applied("[Auth] Login Success")
        /\ (state.isAuthenticated /\ ~state'.isAuthenticated) =>
              Applied("[Auth] Logout Success")
      ]_vars

\* a signed-in user logged in again and the call failed: still signed in
AuthChangesOnlyOnSuccessWitness ==
    /\ Len(log) = 2
    /\ log[1].type = "[Auth] Login"
    /\ log[2].type = "[Auth] Login Failure"
    /\ state.isAuthenticated
    /\ state.currentUser # NoUser
    /\ state.error = "Invalid credentials"
    /\ obs["isAuthenticated"].count = 0
    /\ obs["currentUser"].count = 0

\* C22: in every slice reached from initialUserState by reducing any
\* sequence of actions whose user payloads are not null, isAuthenticated
\* implies that currentUser is not null.
AuthenticatedHasUser ==
    state.isAuthenticated => state.currentUser # NoUser

\* signed in, then a login that failed: authenticated, with the user
AuthenticatedHasUserWitness ==
    /\ Len(log) = 2
    /\ IsLoginSuccess(log[1])
    /\ log[2].type = "[Auth] Login Failure"
    /\ state.isAuthenticated
    /\ state.currentUser.id = "1"

\* C23 as stated: in every state reached through the dispatches of
\* components and effects, currentUser is not null only if isAuthenticated
\* is true.
UserOnlyIfAuthenticated ==
    state.currentUser # NoUser => state.isAuthenticated

\* C24 as stated: while the slice is not authenticated no navigation ends on
\* /dashboard, and it becomes authenticated only by the loginSuccess of a
\* login dispatched after every logoutSuccess reduced so far: the result of
\* a login outstanding at logout does not sign the user in again.
NoLateReauthentication ==
    [][ /\ (~state.isAuthenticated /\ ~state'.isAuthenticated) =>
              (route' = route \/ route' # "/dashboard")
        /\ (~state.isAuthenticated /\ state'.isAuthenticated) =>
              /\ Reducing
              /\ IsLoginSuccess(Head(queue))
              /\ \A k \in 1..Len(log) :
                    IsLogoutSuccess(log[k]) => k < TriggerPos(Head(queue).inv)
      ]_vars

\* the run so far is: two logins dispatched, the second while the call of
\* the first was in flight, both calls resolved, nothing left to do
TwoLogins ==
    /\ Quiescent
    /\ NumExternal = 2
    /\ Len(calls) = 2
    /\ calls[1].effect = "login" /\ calls[1].result = "resolved"
    /\ calls[2].effect = "login" /\ calls[2].result = "resolved"
    /\ calls[2].at.loading

\* C25: after two overlapping logins whose calls both resolved, the
\* currentUser and the stored token at quiescence are both those of the
\* response that arrived last, whichever login that is.
LastCompletionWins ==
    TwoLogins =>
        LET last == log[Len(log)].inv
        IN /\ state.currentUser = UserObject(calls[last].body, last)
           /\ \E r \in Responses : r.user = calls[last].body /\ token = r.token
           /\ state.isAuthenticated

\* the response of the first login arrived last: its user and its token stay
LastCompletionWinsWitness ==
    /\ TwoLogins
    /\ log[Len(log)].inv = 1
    /\ calls[1].body.id = "1" /\ calls[2].body.id = "2"
    /\ state.currentUser.id = "1"
    /\ token = "tokA"

\* C26: once the effects have seen the action reduced, loading = true means
\* that some invocation of login$, logout$ or getUserProfile$ has started
\* and its follow-up is not reduced yet; so loading is false in every
\* quiescent state.
LoadingHasInvocation ==
    /\ (scanned = <<>> /\ state.loading) => Outstanding # {}
    /\ Quiescent => ~state.loading

\* a login failed and the getUserProfile dispatched next is in flight
LoadingHasInvocationWitness ==
    /\ Idle
    /\ state.loading
    /\ Len(calls) = 2
    /\ calls[1].status = "done" /\ calls[1].result = "rejected"
    /\ calls[2].status = "pending"
    /\ Outstanding = {2}

\* C27 as stated: in an idle store, loading = false means that no
\* invocation of login$, logout$ or getUserProfile$ is outstanding.
NotLoadingNothingOutstanding ==
    (Idle /\ ~state.loading) => Outstanding = {}

\* the types of the actions the effects dispatch
ResultTypes ==
    { "[Auth] Login Success", "[Auth] Login Failure", "[Auth] Logout Success",
      "[User] Get User Profile Success" }

\* C28: when the effects see a result action they dispatch nothing and
\* start no invocation; when they see login, logout or getUserProfile they
\* start exactly one; so at most twice as many actions are dispatched in
\* all as components dispatched, and when every call settles the system
\* comes to a quiescent state.
NoFeedbackLoop ==
    /\ [][ /\ Seeing(ResultTypes) => (queue' = queue /\ calls' = calls)
           /\ Seeing(TriggerTypes) =>
                 /\ Len(calls') = Len(calls) + 1
                 /\ Len(queue') <= Len(queue) + 1
         ]_vars
    /\ [](/\ Len(log) + Len(queue) <= 2 * NumExternal
          /\ Len(calls) <= NumExternal)
    /\ (~Quiescent ~> Quiescent)

\* two triggers dispatched, four actions in all, nothing left to do
NoFeedbackLoopWitness ==
    /\ Quiescent
    /\ NumExternal = 2
    /\ Len(log) = 4
    /\ Len(calls) = 2
    /\ log[2].type \in ResultTypes /\ log[4].type \in ResultTypes
    /\ calls[1].effect = "getUserProfile"

\* C29: starting with no token and initialUserState, in every state with no
\* outstanding invocation and no action waiting, a token is stored exactly
\* when isAuthenticated is true.
TokenAgreesWithState ==
    Quiescent => ((token # NoToken) <=> state.isAuthenticated)

\* the response of a login in flight at logout arrived after logoutSuccess:
\* its token is stored and the slice is authenticated
TokenAgreesWithStateWitness ==
    /\ Quiescent
    /\ Len(calls) = 2
    /\ calls[1].effect = "login" /\ calls[1].result = "resolved"
    /\ calls[2].effect = "logout"
    /\ IsLoginSuccess(log[Len(log)])
    /\ token = "tokA"
    /\ state.isAuthenticated

====
